---- MODULE Spec2Model ----
(***************************************************************************)
(* A model of the notebooks of machine-learning-scripts:                   *)
(*   - the dogs-vs-cats image classifier (tf.keras): path and label lists, *)
(*     the tf.data pipelines, the small CNN and the pretrained-network     *)
(*     flow (freeze, new top layers, fit, unfreeze, fit);                  *)
(*   - the MNIST multi-layer perceptron in Jax: init_network_params,       *)
(*     predict and batched_predict, one_hot, update and the training loop  *)
(*     with its history table.                                             *)
(* The regression demo consists of calls into scikit-learn and has no      *)
(* logic of its own to model.                                              *)
(* A notebook is a linear run of its cells: pc names the next cell.        *)
(* Dataset sizes, the batch size and the epoch counts are scaled down; the *)
(* scaled values keep what the notebook's values have: every split leaves  *)
(* a remainder modulo the batch size (2000, 1000, 22000 modulo 32), and    *)
(* the shuffle buffer holds the whole training set (2000 of 2000).         *)
(***************************************************************************)
EXTENDS Integers, Sequences, FiniteSets, TLC

\* -------------------------------------------------------------------------
\* Bounds (scaled-down sizes)
\* -------------------------------------------------------------------------

\* nimages['train'] (2000 in the notebook)
NTrain == 4

\* nimages['validation'] (1000 in the notebook)
NValidation == 4

\* nimages['test'] (22000 in the notebook)
NTest == 5

\* BATCH_SIZE of the image pipelines (32 in the notebook)
BATCH_SIZE == 3

\* the buffer of train_dataset.shuffle (2000 in the notebook: the whole set)
ShuffleBufferSize == 4

\* passes over the datasets that a run of the pipelines makes
MaxPasses == 2

\* batch_size of the MNIST loaders (32 in the notebook)
batch_size == 2

\* batches per epoch of train_loader (1875: MNIST's 60000 images in 32s)
BatchesPerEpoch == 2

\* num_epochs of the MNIST training loop (10 in the notebook)
num_epochs == 3

\* pixels of an MNIST image (784), units of a hidden layer (512), classes (10)
NPixels == 2

NHidden == 3

NClasses == 2

\* one_hot on its own: the longest label vector and the largest class count
MaxLabels == 3

MaxClasses == 3

\* len(train_dataset) when the training loop is run on training sets of
\* every size (60000 for MNIST)
MaxTrainSize == 5

\* predict on its own: the keys the parameter lists are initialized from,
\* and the most rows of a batch of inputs
MaxKey == 3

MaxBatch == 2

\* number of layers of applications.VGG16(include_top=False)
NLayersVGG16 == 19

\* number of layers of applications.MobileNet(include_top=False)
NLayersMobileNet == 87

\* epochs of the small CNN's fit and of the first fit of the reuse flow (10)
EpochsFirst == 2

\* epochs of the fine-tuning fit (20)
EpochsFineTune == 3

\* -------------------------------------------------------------------------
\* Program constants
\* -------------------------------------------------------------------------

FirstTrainableVGG16 == 15

FirstTrainableMobileNet == 75

\* tf.image.resize(image, [256, 256]) of the augmenting branch
AugmentResize == 256

\* image /= 255.0
PixelMax == 255

VARIABLES
    \* --- image classifier notebook: cells ---
    pc,               \* the next cell of the image classifier notebook
    found,            \* file system: number of entries matching '*/*' per split
    listing,          \* file system: class directories of train, in glob order
    calls,            \* the datasets get_paths has been called with, in order
    abort,            \* the AssertionError that ended the run, or NoAbort
    image_paths,      \* dict: split -> list of path strings
    label_names,      \* sorted class directory names
    label_to_index,   \* dict: class directory name -> index
    image_labels,     \* dict: split -> list of label indices
    pretrained,       \* the name chosen in the cell "pretrained = ..."
    pretrained_first_trainable_layer,
    model,            \* model.layers: a list of layers
    compiled,         \* per layer: the trainable flag the last compile saw
    learning_rate,    \* of the optimizer of the last compile ("default": rmsprop's)
    epochsDone,       \* epochs completed by the running fit
    \* --- image classifier notebook: the tf.data pipelines ---
    graph,            \* per dataset: the map function as Dataset.map traced it
    flipDraws,        \* evaluations of random.random() so far
    cur,              \* the dataset being iterated, or "none"
    finished,         \* the running pass has reached the end of its dataset
    srcPos,           \* source elements the map stage has consumed in this pass
    buffer,           \* the shuffle buffer
    acc,              \* the batch being filled
    batches,          \* the batches this pass has yielded
    passNo,           \* passes started so far
    flipLog,          \* per training item mapped: pass, path, flip, deciding draw
    \* --- MNIST notebook ---
    mpc,              \* the next step of the MNIST notebook's training cell
    ntrain,           \* len(train_dataset)
    params,           \* the parameter list: (w, b) pairs
    prevParams,       \* the list the last update was called with
    argAfter,         \* that list as it is after the call
    stepsAtMetrics,   \* per epoch completed: the value of steps at its metrics
    grads,            \* the gradient the last update computed
    xb,               \* x of the last batch, after the reshape
    yb,               \* y of the last batch, after one_hot
    order,            \* the order train_loader draws the samples in, this epoch
    batchNo,          \* batches train_loader has yielded in this epoch
    epoch,            \* the loop variable of the training loop
    steps,            \* updates applied so far
    history,          \* the history table
    writes,           \* per row of history: assignments to it so far
    epochParams,      \* params as they were when each epoch's metrics were taken
    \* --- one_hot applied on its own ---
    oh_x,             \* the label vector
    oh_k,             \* the class count
    oh_out,           \* one_hot(oh_x, oh_k), once called
    oh_called,        \* one_hot has been called
    \* --- predict and batched_predict applied on their own ---
    pr_params,        \* the parameter list
    pr_X,             \* a batch of input vectors
    pr_preds,         \* per row of pr_X: predict(pr_params, row), once called
    pr_batched        \* batched_predict(pr_params, pr_X), once called

dvcVars == <<pc, found, listing, calls, abort, image_paths, label_names,
             label_to_index, image_labels, pretrained,
             pretrained_first_trainable_layer, model, compiled, learning_rate,
             epochsDone>>

dataVars == <<graph, flipDraws, cur, finished, srcPos, buffer, acc, batches,
              passNo, flipLog>>

predictVars == <<pr_params, pr_X, pr_preds, pr_batched>>

mlpVars == <<mpc, ntrain, params, prevParams, argAfter, stepsAtMetrics, grads,
             xb, yb, order, batchNo, epoch,
             steps, history, writes, epochParams, oh_x, oh_k, oh_out, oh_called,
             predictVars>>

vars == <<dvcVars, dataVars, mlpVars>>

\* what the cells of the image classifier leave alone
notDvcVars == <<dataVars, mlpVars>>

\* what the pipelines leave alone
notDataVars == <<dvcVars, mlpVars>>

\* -------------------------------------------------------------------------
\* Image classifier: paths and labels
\* -------------------------------------------------------------------------

Splits == {"train", "validation", "test"}

nimages == [train |-> NTrain, validation |-> NValidation, test |-> NTest]

\* Class directory names, as sequences of code points ("a", "ab", "b").
DirNames == {<<1>>, <<1, 2>>, <<2>>}

Range(s) == {s[i] : i \in DOMAIN s}

\* The orders in which a directory listing can enumerate a set of names.
Listings ==
    {s \in UNION {[1..k -> DirNames] : k \in 1..Cardinality(DirNames)} :
        \A i, j \in DOMAIN s : i # j => s[i] # s[j]}

NoAbort == [at |-> "none", message |-> <<>>]

\* pathlib.Path(datapath+dataset).glob('*/*'): the entries two levels below
\* the split's root; entry i lies in one of the class directories.
Glob(fs_found, fs_listing, dataset) ==
    [i \in 1..fs_found[dataset] |->
        [root |-> dataset,
         dir |-> fs_listing[((i - 1) % Len(fs_listing)) + 1],
         file |-> i]]

\* str(path): the components joined into one string.
PathStr(path) == <<path.root, path.dir, path.file>>

\* pathlib.Path(s).parent.name
ParentName(s) == s[2]

\* the message of the assertion of get_paths
FoundMessage(image_count, expected) ==
    <<"Found", image_count, "images, expected", expected>>


\* get_paths with "<=" for "==" in its assertion
CountOk_AtMost(image_count, dataset) == image_count <= nimages[dataset]

\* the condition the assertion of get_paths tests
CountOk(image_count, dataset) == image_count = nimages[dataset]

\* Python's < on str: lexicographic by code point, a proper prefix is less.
RECURSIVE StrLess(_, _)
StrLess(a, b) ==
    IF b = <<>> THEN FALSE
    ELSE IF a = <<>> THEN TRUE
    ELSE IF Head(a) < Head(b) THEN TRUE
    ELSE IF Head(a) > Head(b) THEN FALSE
    ELSE StrLess(Tail(a), Tail(b))

RECURSIVE InsertSorted(_, _)
InsertSorted(x, s) ==
    IF s = <<>> THEN <<x>>
    ELSE IF StrLess(x, Head(s)) THEN <<x>> \o s
    ELSE <<Head(s)>> \o InsertSorted(x, Tail(s))

\* sorted(names)
RECURSIVE sorted(_)
sorted(s) == IF s = <<>> THEN <<>> ELSE InsertSorted(Head(s), sorted(Tail(s)))


\* label_names without sorted(...)
LabelNames_Unsorted(fs_listing) == fs_listing

\* label_names = sorted(item.name for item in ...glob('*/') if item.is_dir())
LabelNames(fs_listing) == sorted(fs_listing)

\* dict((name, index) for index, name in enumerate(label_names))
LabelToIndex(names) ==
    [name \in Range(names) |->
        (CHOOSE i \in DOMAIN names :
            names[i] = name /\ \A j \in DOMAIN names : names[j] = name => j <= i) - 1]


\* get_labels that looks every path up under the name of the first one
get_labels_FirstName(paths, l2i) == [i \in DOMAIN paths |-> l2i[ParentName(paths[1])]]

\* get_labels(dataset)
get_labels(paths, l2i) == [i \in DOMAIN paths |-> l2i[ParentName(paths[i])]]

Unset == [d \in Splits |-> <<>>]

InitFs ==
    /\ found \in [Splits -> 0..(NTest + 1)]
    /\ \A d \in Splits : found[d] <= nimages[d] + 1
    /\ listing \in Listings

InitDvc ==
    /\ pc = "paths_train"
    /\ calls = <<>>
    /\ abort = NoAbort
    /\ image_paths = Unset
    /\ label_names = <<>>
    /\ label_to_index = <<>>
    /\ image_labels = Unset
    /\ pretrained = ""
    /\ pretrained_first_trainable_layer = 0
    /\ model = <<>>
    /\ compiled = <<>>
    /\ learning_rate = "none"
    /\ epochsDone = 0

\* get_paths(dataset), called by the cell for train, validation and test
get_paths(dataset, next) ==
    /\ pc = "paths_" \o dataset
    /\ calls' = Append(calls, dataset)
    /\ LET paths == Glob(found, listing, dataset)
           strs == [i \in DOMAIN paths |-> PathStr(paths[i])]
           image_count == Len(strs)
       IN IF CountOk(image_count, dataset)
          THEN /\ image_paths' = [image_paths EXCEPT ![dataset] = strs]
               /\ pc' = next
               /\ abort' = abort
          ELSE /\ abort' = [at |-> "get_paths",
                            message |-> FoundMessage(image_count, nimages[dataset])]
               /\ pc' = "aborted"
               /\ image_paths' = image_paths
    /\ UNCHANGED <<notDvcVars, found, listing, label_names, label_to_index, image_labels,
                   pretrained, pretrained_first_trainable_layer, model,
                   compiled, learning_rate, epochsDone>>

GetPathsTrain == get_paths("train", "paths_validation")

GetPathsValidation == get_paths("validation", "paths_test")

GetPathsTest == get_paths("test", "labels")

\* the cell of label_names, label_to_index and image_labels
LabelsCell ==
    /\ pc = "labels"
    /\ label_names' = LabelNames(listing)
    /\ label_to_index' = LabelToIndex(label_names')
    /\ image_labels' = [d \in Splits |-> get_labels(image_paths[d], label_to_index')]
    /\ pc' = "datasets"
    /\ UNCHANGED <<notDvcVars, found, listing, calls, abort, image_paths, pretrained,
                   pretrained_first_trainable_layer, model, compiled,
                   learning_rate, epochsDone>>

\* -------------------------------------------------------------------------
\* Image classifier: the models
\* -------------------------------------------------------------------------

\* A layer as the flow sees it: where it comes from, its trainable flag and
\* the number of epochs that have updated its weights.
Layer(origin) == [origin |-> origin, trainable |-> TRUE, updates |-> 0]

\* Sequential() followed by the ten model.add calls of the small CNN
SmallCnnLayers == [i \in 1..10 |-> Layer("cnn")]

\* the names the cell "pretrained = ..." can be edited to hold
PretrainedChoices == {"VGG16", "MobileNet", "ResNet50"}


\* the selection with its MobileNet branch never taken
KnownPretrained_OnlyVGG16(name) == name = "VGG16"

\* the branches of the pretrained-model selection that do not fail
KnownPretrained(name) == name = "VGG16" \/ name = "MobileNet"

\* pt_model.layers
PtModelLayers(name) ==
    [i \in 1..(IF name = "VGG16" THEN NLayersVGG16 ELSE NLayersMobileNet) |->
        Layer("pretrained")]

\* pretrained_first_trainable_layer as the selection sets it
FirstTrainable(name) ==
    IF name = "VGG16" THEN FirstTrainableVGG16 ELSE FirstTrainableMobileNet

\* for layer in layers: model.add(layer)
AddAll(layers, more) == layers \o more

\* for layer in model.layers: layer.trainable = False
FreezeAll(layers) ==
    [i \in DOMAIN layers |-> [layers[i] EXCEPT !.trainable = FALSE]]


\* the unfreeze loop over model.layers[:k] for model.layers[k:]
UnfreezeFrom_Prefix(layers, k) ==
    [i \in DOMAIN layers |->
        IF i - 1 < k THEN [layers[i] EXCEPT !.trainable = TRUE] ELSE layers[i]]

\* for layer in model.layers[k:]: layer.trainable = True
\* (position i of the sequence is index i - 1 of the Python list)
UnfreezeFrom(layers, k) ==
    [i \in DOMAIN layers |->
        IF i - 1 >= k THEN [layers[i] EXCEPT !.trainable = TRUE] ELSE layers[i]]

\* model.compile: the optimizer is built for the trainable flags as they are
Compile(layers) == [i \in DOMAIN layers |-> layers[i].trainable]

\* one epoch of model.fit: the weights of the layers the compiled model
\* holds trainable are updated, the others are left alone
TrainEpoch(layers, flags) ==
    [i \in DOMAIN layers |->
        IF flags[i] THEN [layers[i] EXCEPT !.updates = @ + 1] ELSE layers[i]]

fsVars == <<found, listing>>

dataListVars == <<calls, image_paths, label_names, label_to_index, image_labels>>

\* the cell that builds and compiles the small CNN
CnnInit ==
    /\ pc = "cnn_init"
    /\ model' = SmallCnnLayers
    /\ compiled' = Compile(model')
    /\ learning_rate' = "default"
    /\ epochsDone' = 0
    /\ pc' = "cnn_fit"
    /\ UNCHANGED <<notDvcVars, fsVars, dataListVars, abort, pretrained,
                   pretrained_first_trainable_layer>>

\* model.fit(train_dataset, epochs=epochs, ...): one epoch
FitEpoch(cell, epochs) ==
    /\ pc = cell
    /\ epochsDone < epochs
    /\ model' = TrainEpoch(model, compiled)
    /\ epochsDone' = epochsDone + 1
    /\ UNCHANGED <<notDvcVars, fsVars, dataListVars, abort, pc, pretrained,
                   pretrained_first_trainable_layer, compiled, learning_rate>>

\* the end of model.fit, and model.save
FitDone(cell, epochs, next) ==
    /\ pc = cell
    /\ epochsDone = epochs
    /\ pc' = next
    /\ epochsDone' = 0
    /\ UNCHANGED <<notDvcVars, fsVars, dataListVars, abort, pretrained,
                   pretrained_first_trainable_layer, model, compiled,
                   learning_rate>>

CnnFitEpoch == FitEpoch("cnn_fit", EpochsFirst)

CnnFitDone == FitDone("cnn_fit", EpochsFirst, "cnn_evaluate")

\* model.evaluate(test_dataset)
Evaluate(cell, next) ==
    /\ pc = cell
    /\ pc' = next
    /\ UNCHANGED <<notDvcVars, fsVars, dataListVars, abort, pretrained,
                   pretrained_first_trainable_layer, model, compiled,
                   learning_rate, epochsDone>>

CnnEvaluate == Evaluate("cnn_evaluate", "choose_pretrained")

\* the cell "pretrained = 'VGG16'" (or the name it is edited to)
ChoosePretrained ==
    /\ pc = "choose_pretrained"
    /\ \E name \in PretrainedChoices : pretrained' = name
    /\ pc' = "pretrained_init"
    /\ UNCHANGED <<notDvcVars, fsVars, dataListVars, abort,
                   pretrained_first_trainable_layer, model, compiled,
                   learning_rate, epochsDone>>

\* the cell that loads the pretrained network, adds its layers to a new
\* Sequential model and freezes every layer of the model
PretrainedInit ==
    /\ pc = "pretrained_init"
    /\ IF KnownPretrained(pretrained)
       THEN /\ pretrained_first_trainable_layer' = FirstTrainable(pretrained)
            /\ model' = FreezeAll(AddAll(<<>>, PtModelLayers(pretrained)))
            /\ pc' = "top_layers"
            /\ abort' = abort
       ELSE /\ abort' = [at |-> "pretrained_init",
                         message |-> <<"Unknown model: ", pretrained>>]
            /\ pc' = "aborted"
            /\ UNCHANGED <<pretrained_first_trainable_layer, model>>
    /\ compiled' = <<>>
    /\ learning_rate' = "none"
    /\ UNCHANGED <<notDvcVars, fsVars, dataListVars, pretrained, epochsDone>>

\* the cell that adds Flatten, Dense and Dense and compiles with rmsprop
TopLayers ==
    /\ pc = "top_layers"
    /\ model' = AddAll(model, <<Layer("new"), Layer("new"), Layer("new")>>)
    /\ compiled' = Compile(model')
    /\ learning_rate' = "default"
    /\ pc' = "fit_new"
    /\ UNCHANGED <<notDvcVars, fsVars, dataListVars, abort, pretrained,
                   pretrained_first_trainable_layer, epochsDone>>

FitNewEpoch == FitEpoch("fit_new", EpochsFirst)

FitNewDone == FitDone("fit_new", EpochsFirst, "unfreeze")


\* the unfreeze cell without its model.compile
Unfreeze_NoCompile ==
    /\ pc = "unfreeze"
    /\ model' = UnfreezeFrom(model, pretrained_first_trainable_layer)
    /\ pc' = "fit_finetune"
    /\ UNCHANGED <<notDvcVars, fsVars, dataListVars, abort, pretrained,
                   pretrained_first_trainable_layer, epochsDone, compiled,
                   learning_rate>>

\* the cell that unfreezes model.layers[pretrained_first_trainable_layer:]
\* and compiles with RMSprop(lr=1e-5)
Unfreeze ==
    /\ pc = "unfreeze"
    /\ model' = UnfreezeFrom(model, pretrained_first_trainable_layer)
    /\ compiled' = Compile(model')
    /\ learning_rate' = "1e-5"
    /\ pc' = "fit_finetune"
    /\ UNCHANGED <<notDvcVars, fsVars, dataListVars, abort, pretrained,
                   pretrained_first_trainable_layer, epochsDone>>

FineTuneEpoch == FitEpoch("fit_finetune", EpochsFineTune)

FineTuneDone == FitDone("fit_finetune", EpochsFineTune, "evaluate")

FinalEvaluate == Evaluate("evaluate", "done")

\* -------------------------------------------------------------------------
\* Image classifier: the tf.data pipelines
\* -------------------------------------------------------------------------

INPUT_IMAGE_SIZE == <<160, 160, 3>>

\* tf.io.read_file(path) and tf.image.decode_jpeg(image, channels=3): the
\* image of the file, of the size the file has
DecodeJpeg(path) ==
    [shape |-> IF path[3] % 3 = 0 THEN <<375, 499, 3>>
               ELSE IF path[3] % 3 = 1 THEN <<500, 333, 3>>
               ELSE <<100, 80, 3>>,
     ops |-> <<<<"decode_jpeg">>>>]

\* tf.image.resize(image, [h, w])
Resize(image, h, w) ==
    [shape |-> <<h, w, image.shape[3]>>,
     ops |-> Append(image.ops, <<"resize", h, w>>)]

\* the offsets tf.image.random_crop can draw for a crop to size
CropOffsets(image, size) ==
    {<<0, 0>>, <<image.shape[1] - size[1], image.shape[2] - size[2]>>}

\* tf.image.random_crop(image, size), with the offset it drew
RandomCrop(image, size, offset) ==
    [shape |-> size, ops |-> Append(image.ops, <<"random_crop", offset[1], offset[2]>>)]

\* tf.image.flip_left_right(image)
FlipLeftRight(image) ==
    [shape |-> image.shape, ops |-> Append(image.ops, <<"flip_left_right">>)]

\* image /= 255.0
Normalize(image) ==
    [shape |-> image.shape, ops |-> Append(image.ops, <<"divide", PixelMax>>)]


\* preprocess_image whose augmenting branch resizes and does not crop
preprocess_image_ResizeOnly(path, augment, flip, offset) ==
    LET image == DecodeJpeg(path)
        out == IF augment
               THEN LET resized == Resize(image, AugmentResize, AugmentResize)
                    IN IF flip THEN FlipLeftRight(resized) ELSE resized
               ELSE Resize(image, INPUT_IMAGE_SIZE[1], INPUT_IMAGE_SIZE[2])
    IN Normalize(out)

\* preprocess_image(image, augment) as a traced graph runs it on one element:
\* flip is the outcome of the Python test "random.random() < 0.5", offset
\* what the random_crop op draws for this element.
preprocess_image(path, augment, flip, offset) ==
    LET image == DecodeJpeg(path)
        out == IF augment
               THEN LET resized == Resize(image, AugmentResize, AugmentResize)
                        cropped == RandomCrop(resized, INPUT_IMAGE_SIZE, offset)
                    IN IF flip THEN FlipLeftRight(cropped) ELSE cropped
               ELSE Resize(image, INPUT_IMAGE_SIZE[1], INPUT_IMAGE_SIZE[2])
    IN Normalize(out)

\* load_and_augment_image(path, label)
load_and_augment_image(path, label, flip, offset) ==
    [path |-> path, image |-> preprocess_image(path, TRUE, flip, offset), label |-> label]

\* load_and_not_augment_image(path, label)
load_and_not_augment_image(path, label) ==
    [path |-> path, image |-> preprocess_image(path, FALSE, FALSE, <<0, 0>>),
     label |-> label]


\* the pipelines with drop_remainder=True throughout
Pipeline_DropEverywhere(dataset) ==
    [augment |-> dataset = "train", shuffle |-> dataset = "train",
     drop_remainder |-> TRUE]

\* the pipelines with drop_remainder=False throughout
Pipeline_KeepRemainder(dataset) ==
    [augment |-> dataset = "train", shuffle |-> dataset = "train",
     drop_remainder |-> FALSE]

\* the pipelines with every dataset built like train_dataset
Pipeline_AllLikeTrain(dataset) ==
    [augment |-> TRUE, shuffle |-> TRUE, drop_remainder |-> dataset # "test"]

\* the stages the cell chains after from_tensor_slices, per dataset:
\* map(load_and_augment_image | load_and_not_augment_image), shuffle(...) or
\* none, batch(BATCH_SIZE, drop_remainder=...); prefetch changes no element
Pipeline(dataset) ==
    [augment |-> dataset = "train",
     shuffle |-> dataset = "train",
     drop_remainder |-> dataset # "test"]

\* Dataset.map(map_func) traces map_func once, when the dataset is built: the
\* Python statements of preprocess_image run then, and only then. flipDrawn
\* is the value of "random.random() < 0.5" in that one run.
TraceMap(dataset, flipDrawn) ==
    [augment |-> Pipeline(dataset).augment,
     flip |-> Pipeline(dataset).augment /\ flipDrawn]

\* how many times tracing the map function of a dataset runs random.random()
DrawsOfTrace(dataset) == IF Pipeline(dataset).augment THEN 1 ELSE 0

\* the draw that decides the flip of a training element run by the graph
FlipDrawOf(drawsAtTrace, elementsMapped) == drawsAtTrace

NoGraph == [d \in Splits |-> [augment |-> FALSE, flip |-> FALSE]]

InitData ==
    /\ graph = NoGraph
    /\ flipDraws = 0
    /\ cur = "none"
    /\ finished = FALSE
    /\ srcPos = 0
    /\ buffer = <<>>
    /\ acc = <<>>
    /\ batches = <<>>
    /\ passNo = 0
    /\ flipLog = {}

\* the cells that build train_dataset, validation_dataset and test_dataset
DatasetsCell ==
    /\ pc = "datasets"
    /\ \E flipDrawn \in BOOLEAN :
           graph' = [d \in Splits |-> TraceMap(d, flipDrawn)]
    /\ flipDraws' = flipDraws + DrawsOfTrace("train")
                        + DrawsOfTrace("validation") + DrawsOfTrace("test")
    /\ pc' = "cnn_init"
    /\ UNCHANGED <<fsVars, dataListVars, abort, pretrained,
                   pretrained_first_trainable_layer, model, compiled,
                   learning_rate, epochsDone>>
    /\ UNCHANGED <<cur, finished, srcPos, buffer, acc, batches, passNo, flipLog>>
    /\ UNCHANGED mlpVars

DatasetsBuilt == pc \notin {"paths_train", "paths_validation", "paths_test",
                            "labels", "datasets", "aborted"}

\* a consumer (fit, evaluate, take) starts iterating a dataset
StartPass(dataset) ==
    /\ DatasetsBuilt
    /\ cur = "none" \/ finished
    /\ passNo < MaxPasses
    /\ cur' = dataset
    /\ finished' = FALSE
    /\ srcPos' = 0
    /\ buffer' = <<>>
    /\ acc' = <<>>
    /\ batches' = <<>>
    /\ passNo' = passNo + 1
    /\ UNCHANGED notDataVars
    /\ UNCHANGED <<graph, flipDraws, flipLog>>

\* the map stage runs the traced function on the next source element; the
\* element goes to the shuffle buffer or, without shuffle, to the batch
MapNext ==
    /\ cur # "none"
    /\ ~finished
    /\ srcPos < Len(image_paths[cur])
    /\ IF Pipeline(cur).shuffle
       THEN Len(buffer) < ShuffleBufferSize
       ELSE Len(acc) < BATCH_SIZE
    /\ LET path == image_paths[cur][srcPos + 1]
           label == image_labels[cur][srcPos + 1]
       IN IF graph[cur].augment
          THEN \E offset \in CropOffsets([shape |-> <<AugmentResize, AugmentResize, 3>>],
                                         INPUT_IMAGE_SIZE) :
                   LET item == load_and_augment_image(path, label, graph[cur].flip, offset)
                   IN /\ IF Pipeline(cur).shuffle
                         THEN buffer' = Append(buffer, item) /\ acc' = acc
                         ELSE acc' = Append(acc, item) /\ buffer' = buffer
                      /\ flipLog' = flipLog \cup
                             {[pass |-> passNo, path |-> path,
                               flipped |-> graph[cur].flip,
                               draw |-> FlipDrawOf(flipDraws, Cardinality(flipLog))]}
          ELSE LET item == load_and_not_augment_image(path, label)
               IN /\ IF Pipeline(cur).shuffle
                     THEN buffer' = Append(buffer, item) /\ acc' = acc
                     ELSE acc' = Append(acc, item) /\ buffer' = buffer
                  /\ flipLog' = flipLog
    /\ srcPos' = srcPos + 1
    /\ UNCHANGED notDataVars
    /\ UNCHANGED <<graph, flipDraws, cur, finished, batches, passNo>>

RemoveAt(s, i) == SubSeq(s, 1, i - 1) \o SubSeq(s, i + 1, Len(s))

\* the shuffle stage hands on an element drawn at random from its buffer,
\* once the buffer is full or its input is exhausted
ShuffleEmit ==
    /\ cur # "none"
    /\ ~finished
    /\ Pipeline(cur).shuffle
    /\ buffer # <<>>
    /\ Len(buffer) = ShuffleBufferSize \/ srcPos = Len(image_paths[cur])
    /\ Len(acc) < BATCH_SIZE
    /\ \E i \in DOMAIN buffer :
           /\ acc' = Append(acc, buffer[i])
           /\ buffer' = RemoveAt(buffer, i)
    /\ UNCHANGED notDataVars
    /\ UNCHANGED <<graph, flipDraws, cur, finished, srcPos, batches, passNo, flipLog>>

\* the batch stage yields a full batch
BatchYield ==
    /\ cur # "none"
    /\ ~finished
    /\ Len(acc) = BATCH_SIZE
    /\ batches' = Append(batches, acc)
    /\ acc' = <<>>
    /\ UNCHANGED notDataVars
    /\ UNCHANGED <<graph, flipDraws, cur, finished, srcPos, buffer, passNo, flipLog>>

\* the end of the dataset: the batch stage yields what is left as a last,
\* smaller batch, or drops it under drop_remainder
EndOfData ==
    /\ cur # "none"
    /\ ~finished
    /\ srcPos = Len(image_paths[cur])
    /\ buffer = <<>>
    /\ Len(acc) < BATCH_SIZE
    /\ batches' = IF acc # <<>> /\ ~Pipeline(cur).drop_remainder
                  THEN Append(batches, acc)
                  ELSE batches
    /\ acc' = <<>>
    /\ finished' = TRUE
    /\ UNCHANGED notDataVars
    /\ UNCHANGED <<graph, flipDraws, cur, srcPos, buffer, passNo, flipLog>>

\* -------------------------------------------------------------------------
\* MNIST notebook
\* -------------------------------------------------------------------------

n_targets == NClasses

layer_sizes == <<NPixels, NHidden, NClasses>>

\* step_size = 0.01. Parameters are counted in hundredths and gradients in
\* whole units, so that step_size * g is a whole number of hundredths.
step_size == [num |-> 1, den |-> 100]

Hundredths(v) == v * 100

\* step_size * g, in hundredths
TimesStepSize(g) == (step_size.num * Hundredths(g)) \div step_size.den


\* arange counting from 1
arange_FromOne(k) == [j \in 1..k |-> j]

\* jnp.arange(k)
arange(k) == [j \in 1..k |-> j - 1]

\* one_hot(x, k): jnp.array(x[:, None] == jnp.arange(k), dtype)
one_hot(x, k) ==
    [i \in 1..Len(x) |-> [j \in 1..k |-> IF x[i] = arange(k)[j] THEN 1 ELSE 0]]


\* random_layer_params with the weight drawn as (m, n)
random_layer_params_Transposed(m, n, key) ==
    <<[i \in 1..m |-> [j \in 1..n |-> ((key * 7 + i * 3 + j) % 5) - 2]],
      [i \in 1..n |-> ((key * 5 + i) % 3) - 1]>>

\* random_layer_params(m, n, key): an n-by-m matrix and an n-vector, drawn
\* from the key
random_layer_params(m, n, key) ==
    <<[i \in 1..n |-> [j \in 1..m |-> ((key * 7 + i * 3 + j) % 5) - 2]],
      [i \in 1..n |-> ((key * 5 + i) % 3) - 1]>>

\* zip(sizes[:-1], sizes[1:], keys) of init_network_params: as long as the
\* shortest of the three
ZipLen(sizes, keys) ==
    LET a == Len(sizes) - 1
    IN IF a < Len(keys) THEN a ELSE Len(keys)

\* init_network_params(sizes, key); random.split(key, n) gives n keys
init_network_params(sizes, key) ==
    LET keys == [i \in 1..Len(sizes) |-> key + i]
    IN [i \in 1..ZipLen(sizes, keys) |->
           random_layer_params(sizes[i], sizes[i + 1], keys[i])]


\* relu without the maximum
relu_Identity(x) == x

\* relu(x): jnp.maximum(0, x), entry by entry
relu(x) == [i \in DOMAIN x |-> IF 0 > x[i] THEN 0 ELSE x[i]]

\* the inner product of two vectors
RECURSIVE Dot(_, _)
Dot(u, v) == IF u = <<>> THEN 0 ELSE Head(u) * Head(v) + Dot(Tail(u), Tail(v))

\* jnp.dot(w, activations) of a matrix and a vector
JnpDot(w, activations) == [i \in DOMAIN w |-> Dot(w[i], activations)]

\* the sum of two vectors
VecAdd(u, v) == [i \in DOMAIN u |-> u[i] + v[i]]

\* the loop "for w, b in params[:-1]" of predict, from activations on
RECURSIVE HiddenLayers(_, _)
HiddenLayers(ps, activations) ==
    IF ps = <<>> THEN activations
    ELSE LET outputs == VecAdd(JnpDot(Head(ps)[1], activations), Head(ps)[2])
         IN HiddenLayers(Tail(ps), relu(outputs))

\* logsumexp(v): a function of the vector, kept as a term
logsumexp(v) == [logsumexp_of |-> v]

\* predict(params, image); entry k of the result is logits[k] minus the
\* logsumexp of the logits, kept as the pair of the two
predict(ps, image) ==
    LET activations == HiddenLayers(SubSeq(ps, 1, Len(ps) - 1), image)
        final_w == ps[Len(ps)][1]
        final_b == ps[Len(ps)][2]
        logits == VecAdd(JnpDot(final_w, activations), final_b)
    IN [k \in DOMAIN logits |-> [value |-> logits[k], minus |-> logsumexp(logits)]]


\* vmap that hands the first row to every call
batched_predict_FirstRow(ps, X) == [i \in 1..Len(X) |-> predict(ps, X[1])]

\* batched_predict = vmap(predict, in_axes=(None, 0)): params is handed to
\* every call as it is, the second argument is mapped over its axis 0
batched_predict(ps, X) == [i \in 1..Len(X) |-> predict(ps, X[i])]

\* w - step_size * dw on matrices, b - step_size * db on vectors
VecStep(b, db) == [i \in DOMAIN b |-> b[i] - TimesStepSize(db[i])]

MatStep(w, dw) == [i \in DOMAIN w |-> VecStep(w[i], dw[i])]


\* update that leaves the biases as they are
RECURSIVE update_WeightsOnly(_, _)
update_WeightsOnly(ps, gs) ==
    IF ps = <<>> \/ gs = <<>> THEN <<>>
    ELSE <<<<MatStep(Head(ps)[1], Head(gs)[1]), Head(ps)[2]>>>>
             \o update_WeightsOnly(Tail(ps), Tail(gs))

\* the list comprehension of update over zip(params, grads)
RECURSIVE update(_, _)
update(ps, gs) ==
    IF ps = <<>> \/ gs = <<>> THEN <<>>
    ELSE <<<<MatStep(Head(ps)[1], Head(gs)[1]), VecStep(Head(ps)[2], Head(gs)[2])>>>>
             \o update(Tail(ps), Tail(gs))

\* a call update(params, x, y) with gradient gs: the list it returns, and the
\* list it was passed as that list is after the call. The comprehension
\* builds a new list of new tuples of new arrays and assigns to nothing.
update_call(ps, gs) == [returned |-> update(ps, gs), passed |-> ps]

\* whether update(params, x, y) runs without a shape error: every row of x
\* has the length jnp.dot(w, activations) needs for the first w, and
\* preds * targets has equal or broadcastable row counts
UpdateShapesOk(ps, x, y) ==
    /\ \A r \in DOMAIN x : Len(x[r]) = Len(ps[1][1][1])
    /\ Len(x) = Len(y) \/ Len(x) = 1 \/ Len(y) = 1

\* grad(loss)(params, x, y): a list of (dw, db) of the shapes of params. The
\* values automatic differentiation gives are taken from a small family that
\* differs from entry to entry.
GradChoices(ps) ==
    {[l \in DOMAIN ps |->
         <<[i \in DOMAIN ps[l][1] |->
               [j \in DOMAIN ps[l][1][i] |-> g * (l + i + j)]],
           [i \in DOMAIN ps[l][2] |-> -g * (l + i)]>>] : g \in {-1, 1}}

\* the MNIST training set: the samples, their targets and their pixels
TrainSamples == 1..ntrain

TargetOf(sample) == (sample - 1) % NClasses

ImageOf(sample) == [p \in 1..NPixels |-> sample * p]

\* the orders DataLoader(shuffle=True) can draw the samples in
LoaderOrders ==
    LET n == Cardinality(TrainSamples)
    IN {[i \in 1..n |-> i], [i \in 1..n |-> n + 1 - i]}


\* a loader that yields its first batch again and again
BatchSamples_First(ord, k) ==
    LET last == IF batch_size < Len(ord) THEN batch_size ELSE Len(ord)
    IN [i \in 1..last |-> ord[i]]

\* the samples of batch k (from 1) of train_loader; the last batch is kept
\* when it is smaller (drop_last is not set)
BatchSamples(ord, k) ==
    LET first == (k - 1) * batch_size + 1
        last == IF k * batch_size < Len(ord) THEN k * batch_size ELSE Len(ord)
    IN [i \in 1..(last - first + 1) |-> ord[first + i - 1]]

\* the batches train_loader yields per epoch
NumBatches == (Cardinality(TrainSamples) + batch_size - 1) \div batch_size

RECURSIVE Flatten(_)
Flatten(rows) == IF rows = <<>> THEN <<>> ELSE Head(rows) \o Flatten(Tail(rows))

\* a.reshape(rows, -1) of the flat data of a: defined when rows divides the
\* number of elements
ReshapeOk(flat, rows) == Len(flat) % rows = 0

Reshape(flat, rows) ==
    LET cols == Len(flat) \div rows
    IN [r \in 1..rows |-> [c \in 1..cols |-> flat[(r - 1) * cols + c]]]

\* accuracy(params, images, targets) and loss(params, images, targets) of a
\* data set: a value that is a function of the parameters and the data set
accuracy(ps, dataset) == <<"accuracy", dataset, ps>>

loss(ps, dataset) == <<"loss", dataset, ps>>

Zero == <<"zero", "", <<>>>>

\* np.zeros((rows, cols))
zeros(rows, cols) == [r \in 1..rows |-> [c \in 1..cols |-> Zero]]


\* the assignment always made to row 0
SetRow_First(table, index, row) == [table EXCEPT ![1] = row]

\* history[index, :] = row
SetRow(table, index, row) == [table EXCEPT ![index + 1] = row]

\* the row of metrics the loop computes after an epoch
MetricsRow(ps) ==
    <<accuracy(ps, "train"), loss(ps, "train"),
      accuracy(ps, "validation"), loss(ps, "validation")>>

oneHotVars == <<oh_x, oh_k, oh_out, oh_called>>

trainVars == <<mpc, ntrain, params, prevParams, argAfter, stepsAtMetrics,
               grads, xb, yb, order, batchNo, epoch,
               steps, history, writes, epochParams>>

InitOneHotIdle ==
    /\ oh_x = <<>>
    /\ oh_k = 0
    /\ oh_out = <<>>
    /\ oh_called = FALSE

\* the state when the training cell is about to run: params is what
\* init_network_params(layer_sizes, random.PRNGKey(0)) returned
InitTrainLoop ==
    /\ mpc = "train_cell"
    /\ params = init_network_params(layer_sizes, 0)
    /\ prevParams = <<>>
    /\ argAfter = <<>>
    /\ stepsAtMetrics = <<>>
    /\ grads = <<>>
    /\ xb = <<>>
    /\ yb = <<>>
    /\ order = <<>>
    /\ batchNo = 0
    /\ epoch = 0
    /\ steps = 0
    /\ history = <<>>
    /\ writes = <<>>
    /\ epochParams = <<>>

\* MNIST's training set: a whole number of batches (60000 = 1875 * 32)
InitTrain ==
    /\ InitTrainLoop
    /\ ntrain = BatchesPerEpoch * batch_size

NotCalled == <<>>

InitPredictIdle ==
    /\ pr_params = <<>>
    /\ pr_X = <<>>
    /\ pr_preds = <<>>
    /\ pr_batched = NotCalled

InitMlp == InitTrain /\ InitOneHotIdle /\ InitPredictIdle

\* history = np.zeros((num_epochs, 4))
TrainCellStart ==
    /\ mpc = "train_cell"
    /\ history' = zeros(num_epochs, 4)
    /\ writes' = [r \in 1..num_epochs |-> 0]
    /\ epoch' = 0
    /\ mpc' = "epoch_start"
    /\ UNCHANGED <<ntrain, argAfter, stepsAtMetrics, params, prevParams, grads,
                   xb, yb, order, batchNo, steps,
                   epochParams>>
    /\ UNCHANGED <<dvcVars, dataVars, oneHotVars, predictVars>>

\* for epoch in range(num_epochs): the loop goes on, and train_loader starts
\* a new pass in an order of its own
EpochStart ==
    /\ mpc = "epoch_start"
    /\ epoch < num_epochs
    /\ \E ord \in LoaderOrders : order' = ord
    /\ batchNo' = 0
    /\ mpc' = "batches"
    /\ UNCHANGED <<ntrain, argAfter, stepsAtMetrics, params, prevParams, grads,
                   xb, yb, epoch, steps, history,
                   writes, epochParams>>
    /\ UNCHANGED <<dvcVars, dataVars, oneHotVars, predictVars>>

\* the body of "for x, y in train_loader", for the next batch: one_hot, the
\* reshape and update; an error of the reshape or of update ends the run
TrainStep ==
    /\ mpc = "batches"
    /\ batchNo < NumBatches
    /\ LET samples == BatchSamples(order, batchNo + 1)
           y == one_hot([i \in DOMAIN samples |-> TargetOf(samples[i])], n_targets)
           flat == Flatten([i \in DOMAIN samples |-> ImageOf(samples[i])])
       IN /\ yb' = y
          /\ IF ~ReshapeOk(flat, batch_size)
             THEN /\ mpc' = "failed"
                  /\ UNCHANGED <<xb, params, prevParams, argAfter, grads, steps,
                                 batchNo>>
             ELSE LET x == Reshape(flat, batch_size)
                  IN /\ xb' = x
                     /\ IF UpdateShapesOk(params, x, y)
                        THEN /\ \E g \in GradChoices(params) :
                                    /\ grads' = g
                                    /\ params' = update_call(params, g).returned
                                    /\ argAfter' = update_call(params, g).passed
                             /\ prevParams' = params
                             /\ steps' = steps + 1
                             /\ batchNo' = batchNo + 1
                             /\ mpc' = mpc
                        ELSE /\ mpc' = "failed"
                             /\ UNCHANGED <<params, prevParams, argAfter, grads,
                                            steps, batchNo>>
    /\ UNCHANGED <<ntrain, order, epoch, history, writes, epochParams,
                   stepsAtMetrics>>
    /\ UNCHANGED <<dvcVars, dataVars, oneHotVars, predictVars>>

\* the end of the epoch: the four metrics and the assignment to history
EpochMetrics ==
    /\ mpc = "batches"
    /\ batchNo = NumBatches
    /\ history' = SetRow(history, epoch, MetricsRow(params))
    /\ writes' = [writes EXCEPT ![epoch + 1] = @ + 1]
    /\ epochParams' = Append(epochParams, params)
    /\ stepsAtMetrics' = Append(stepsAtMetrics, steps)
    /\ epoch' = epoch + 1
    /\ mpc' = "epoch_start"
    /\ UNCHANGED <<ntrain, argAfter, params, prevParams, grads, xb, yb, order,
                   batchNo, steps>>
    /\ UNCHANGED <<dvcVars, dataVars, oneHotVars, predictVars>>

\* range(num_epochs) is exhausted: the cell ends and the plots are drawn
LoopDone ==
    /\ mpc = "epoch_start"
    /\ epoch = num_epochs
    /\ mpc' = "plots"
    /\ UNCHANGED <<ntrain, argAfter, stepsAtMetrics, params, prevParams, grads,
                   xb, yb, order, batchNo, epoch,
                   steps, history, writes, epochParams>>
    /\ UNCHANGED <<dvcVars, dataVars, oneHotVars, predictVars>>

\* a call one_hot(x, k) on its own
OneHotCall ==
    /\ ~oh_called
    /\ oh_out' = one_hot(oh_x, oh_k)
    /\ oh_called' = TRUE
    /\ UNCHANGED <<oh_x, oh_k>>
    /\ UNCHANGED <<dvcVars, dataVars, trainVars, predictVars>>

\* a call predict(params, x) on one row of the batch
PredictCall ==
    /\ \E i \in DOMAIN pr_X :
           /\ pr_preds[i] = NotCalled
           /\ pr_preds' = [pr_preds EXCEPT ![i] = predict(pr_params, pr_X[i])]
    /\ UNCHANGED <<pr_params, pr_X, pr_batched>>
    /\ UNCHANGED <<dvcVars, dataVars, trainVars, oneHotVars>>

\* the call batched_predict(params, X)
BatchedPredictCall ==
    /\ pr_X # <<>>
    /\ pr_batched = NotCalled
    /\ pr_batched' = batched_predict(pr_params, pr_X)
    /\ UNCHANGED <<pr_params, pr_X, pr_preds>>
    /\ UNCHANGED <<dvcVars, dataVars, trainVars, oneHotVars>>

NextDvc ==
    \/ GetPathsTrain
    \/ GetPathsValidation
    \/ GetPathsTest
    \/ LabelsCell
    \/ DatasetsCell
    \/ CnnInit
    \/ CnnFitEpoch
    \/ CnnFitDone
    \/ CnnEvaluate
    \/ ChoosePretrained
    \/ PretrainedInit
    \/ TopLayers
    \/ FitNewEpoch
    \/ FitNewDone
    \/ Unfreeze
    \/ FineTuneEpoch
    \/ FineTuneDone
    \/ FinalEvaluate

InitSpecDvc == InitFs /\ InitDvc /\ InitData /\ InitMlp

\* The image classifier notebook, run cell by cell on any file system.
SpecDvc == InitSpecDvc /\ [][NextDvc]_vars

\* the file system the notebook is written for: every split holds nimages
\* entries, in two class directories
InitFsExpected ==
    /\ found = nimages
    /\ listing = <<<<2>>, <<1>>>>

\* the notebook's state when the dataset cells are about to run
InitSpecData ==
    /\ InitFsExpected
    /\ InitData
    /\ InitMlp
    /\ pc = "datasets"
    /\ calls = <<"train", "validation", "test">>
    /\ abort = NoAbort
    /\ image_paths =
           [d \in Splits |-> [i \in 1..found[d] |-> PathStr(Glob(found, listing, d)[i])]]
    /\ label_names = LabelNames(listing)
    /\ label_to_index = LabelToIndex(label_names)
    /\ image_labels = [d \in Splits |-> get_labels(image_paths[d], label_to_index)]
    /\ pretrained = ""
    /\ pretrained_first_trainable_layer = 0
    /\ model = <<>>
    /\ compiled = <<>>
    /\ learning_rate = "none"
    /\ epochsDone = 0

NextData ==
    \/ DatasetsCell
    \/ \E d \in Splits : StartPass(d)
    \/ MapNext
    \/ ShuffleEmit
    \/ BatchYield
    \/ EndOfData

\* The dataset cells and passes over the three pipelines.
SpecData == InitSpecData /\ [][NextData]_vars

\* the image classifier notebook before its first cell, left alone
IdleDvc ==
    /\ InitFsExpected
    /\ InitDvc
    /\ InitData

InitSpecMlp == IdleDvc /\ InitMlp

NextMlp ==
    \/ TrainCellStart
    \/ EpochStart
    \/ TrainStep
    \/ EpochMetrics
    \/ LoopDone

\* The training cell of the MNIST notebook.
SpecMlp == InitSpecMlp /\ [][NextMlp]_vars

\* The training cell under weak fairness: a notebook cell that can go on
\* does go on.
SpecMlpFair == SpecMlp /\ WF_vars(NextMlp)

InitSpecMlpSizes ==
    /\ IdleDvc
    /\ InitTrainLoop
    /\ InitOneHotIdle
    /\ InitPredictIdle
    /\ ntrain \in 1..MaxTrainSize

\* The training cell on training sets of every size up to MaxTrainSize.
SpecMlpSizes == InitSpecMlpSizes /\ [][NextMlp]_vars

\* label vectors of up to MaxLabels labels, each one of the k classes
LabelVectors(k) == UNION {[1..n -> 0..(k - 1)] : n \in 0..MaxLabels}

InitSpecOneHot ==
    /\ IdleDvc
    /\ InitTrain
    /\ InitPredictIdle
    /\ oh_k \in 1..MaxClasses
    /\ oh_x \in LabelVectors(oh_k)
    /\ oh_out = <<>>
    /\ oh_called = FALSE

NextOneHot == OneHotCall

\* one_hot on every label vector and class count within the bounds.
SpecOneHot == InitSpecOneHot /\ [][NextOneHot]_vars

\* the layer sizes of the networks predict is applied to: one layer, the
\* two of layer_sizes, and three
PredictSizes ==
    {<<NPixels, NClasses>>,
     layer_sizes,
     <<NPixels, NHidden, NHidden + 1, NClasses>>}

\* the values of an entry of an input vector
PixelValues == {-1, 1}

\* batches of up to MaxBatch input vectors of n entries
InputBatches(n) == UNION {[1..m -> [1..n -> PixelValues]] : m \in 1..MaxBatch}

InitSpecPredict ==
    /\ IdleDvc
    /\ InitTrain
    /\ InitOneHotIdle
    /\ \E sizes \in PredictSizes :
           /\ pr_params \in {init_network_params(sizes, key) : key \in 0..MaxKey}
           /\ pr_X \in InputBatches(sizes[1])
    /\ pr_preds = [i \in DOMAIN pr_X |-> NotCalled]
    /\ pr_batched = NotCalled

NextPredict ==
    \/ PredictCall
    \/ BatchedPredictCall

\* predict and batched_predict on parameter lists of one to three layers.
SpecPredict == InitSpecPredict /\ [][NextPredict]_vars

\* -------------------------------------------------------------------------
\* Claims about the image classifier's cells (checked under SpecDvc)
\* -------------------------------------------------------------------------

\* C1: for every split get_paths has been called with, the call aborted with
\* 'Found <count> images, expected <nimages[d]>' exactly when the number of
\* discovered paths differs from nimages[d]; when the two are equal it
\* returned the list of all discovered paths, as strings, and raised nothing.
C1_GetPathsAssertion ==
    \A k \in DOMAIN calls :
        LET d == calls[k]
            discovered == Glob(found, listing, d)
        IN IF Len(discovered) # nimages[d]
           THEN /\ k = Len(calls)
                /\ abort = [at |-> "get_paths",
                            message |-> <<"Found", Len(discovered),
                                          "images, expected", nimages[d]>>]
                /\ image_paths[d] = <<>>
           ELSE /\ Len(image_paths[d]) = Len(discovered)
                /\ \A i \in DOMAIN discovered :
                       image_paths[d][i] = PathStr(discovered[i])
                /\ (k = Len(calls) => abort.at # "get_paths")

\* C1 witness: two calls returned their lists and the third one aborted.
C1_Witness ==
    /\ Len(calls) = 3
    /\ abort.at = "get_paths"
    /\ Len(image_paths["train"]) = NTrain
    /\ Len(image_paths["validation"]) = NValidation

\* C2: label_to_index is a bijection from the class directory names of train
\* onto 0..K-1 in which a name's index is the number of names
\* lexicographically below it, whatever order the listing enumerates them in.
C2_LabelIndexSorted ==
    label_names # <<>> =>
        LET names == Range(listing)
            K == Cardinality(names)
        IN /\ DOMAIN label_to_index = names
           /\ {label_to_index[n] : n \in names} = 0..(K - 1)
           /\ \A n, m \in names : n # m => label_to_index[n] # label_to_index[m]
           /\ \A n \in names :
                  label_to_index[n] = Cardinality({m \in names : StrLess(m, n)})
           /\ \A other \in Listings :
                  Range(other) = names =>
                      LabelToIndex(LabelNames(other)) = label_to_index

\* C2 witness: three class directories, listed in an order that is not sorted.
C2_Witness ==
    /\ label_names # <<>>
    /\ Len(listing) = 3
    /\ listing # label_names

PretrainedAt(layers) == {i \in DOMAIN layers : layers[i].origin = "pretrained"}

NewAt(layers) == {i \in DOMAIN layers : layers[i].origin = "new"}

\* C5: in the first training phase every pretrained layer is non-trainable
\* (and no epoch updates it) and exactly the three appended layers are
\* trainable; after the unfreeze step the trainable pretrained layers are
\* those at index >= pretrained_first_trainable_layer of model.layers (15
\* for VGG16, 75 for MobileNet), and no pretrained layer below that index is
\* trainable or updated through the second training phase.
C5_FreezeThenUnfreezeSuffix ==
    /\ pc \in {"fit_new", "unfreeze"} =>
          /\ \A i \in PretrainedAt(model) :
                 /\ ~model[i].trainable
                 /\ ~compiled[i]
                 /\ model[i].updates = 0
          /\ NewAt(model) = (Len(model) - 2)..Len(model)
          /\ \A i \in NewAt(model) : model[i].trainable /\ compiled[i]
          /\ pc = "fit_new" => \A i \in NewAt(model) : model[i].updates = epochsDone
    /\ pc \in {"fit_finetune", "evaluate", "done"} =>
          /\ pretrained_first_trainable_layer =
                 (IF pretrained = "VGG16" THEN 15 ELSE 75)
          /\ pretrained \in {"VGG16", "MobileNet"}
          /\ \A i \in PretrainedAt(model) :
                 /\ model[i].trainable <=> (i - 1 >= pretrained_first_trainable_layer)
                 /\ compiled[i] = model[i].trainable
                 /\ (i - 1 < pretrained_first_trainable_layer => model[i].updates = 0)
          /\ \A i \in NewAt(model) : model[i].trainable

\* C5 witness: the second phase has run all its epochs on MobileNet, with
\* pretrained layers on both sides of the index.
C5_Witness ==
    /\ pc = "fit_finetune"
    /\ epochsDone = EpochsFineTune
    /\ pretrained = "MobileNet"
    /\ \E i, j \in PretrainedAt(model) : model[i].updates = 0 /\ model[j].updates > 0

\* C7 (as claimed): the file-count assertion of get_paths is the only
\* statement that aborts the run.
C7_OnlyGetPathsAborts == abort # NoAbort => abort.at = "get_paths"

\* C7 (amended): a run is aborted by one of two assertions, and only when
\* the condition it tests holds: the file-count assertion of get_paths, when
\* the count differs from nimages, and the assertion of the pretrained-model
\* selection, when the name is neither VGG16 nor MobileNet; a run that gets
\* past the selection has one of these two names.
C7_AbortOnlyByAssertions ==
    /\ pc = "aborted" <=> abort # NoAbort
    /\ abort # NoAbort =>
          \/ /\ abort.at = "get_paths"
             /\ found[calls[Len(calls)]] # nimages[calls[Len(calls)]]
          \/ /\ abort.at = "pretrained_init"
             /\ abort.message = <<"Unknown model: ", pretrained>>
             /\ pretrained \notin {"VGG16", "MobileNet"}
    /\ pc \in {"top_layers", "fit_new", "unfreeze", "fit_finetune", "evaluate", "done"}
          => pretrained \in {"VGG16", "MobileNet"}

\* C7 witness: the run was aborted by the assertion of the selection.
C7_Witness == abort.at = "pretrained_init" /\ pc = "aborted"

\* -------------------------------------------------------------------------
\* Claims about the tf.data pipelines (checked under SpecData)
\* -------------------------------------------------------------------------

\* the items the running pass has handed to the batch stage, in order
Emitted == Flatten(batches) \o acc

\* the ops of an element mapped by load_and_not_augment_image
PlainOps == <<<<"decode_jpeg">>, <<"resize", 160, 160>>, <<"divide", 255>>>>

\* an element mapped by load_and_augment_image: resized to 256 x 256, then
\* cropped at random
IsAugmented(item) ==
    /\ Len(item.image.ops) >= 3
    /\ item.image.ops[2] = <<"resize", 256, 256>>
    /\ item.image.ops[3][1] = "random_crop"

\* C6 (as claimed): every batch a pipeline yields, of train, validation and
\* test alike, contains exactly BATCH_SIZE items.
C6_EveryBatchFull == \A k \in DOMAIN batches : Len(batches[k]) = BATCH_SIZE

\* C6 (amended): every batch of the train and validation pipelines holds
\* exactly BATCH_SIZE items (the remainder is dropped); the test pipeline
\* keeps the remainder, so its batches hold BATCH_SIZE items except the last
\* one, which holds nimages['test'] mod BATCH_SIZE items when that is not 0.
C6_BatchSizes ==
    cur # "none" =>
        LET full == nimages[cur] \div BATCH_SIZE
            rest == nimages[cur] % BATCH_SIZE
        IN /\ \A k \in DOMAIN batches :
                  IF cur = "test" /\ k = full + 1
                  THEN Len(batches[k]) = rest /\ rest > 0
                  ELSE Len(batches[k]) = BATCH_SIZE /\ k <= full
           /\ finished =>
                  Len(batches) = (IF cur = "test" /\ rest > 0 THEN full + 1 ELSE full)

\* C6 witness: a pass over test has ended with a last batch smaller than
\* BATCH_SIZE, after at least one full batch.
C6_Witness ==
    /\ cur = "test"
    /\ finished
    /\ Len(batches) >= 2
    /\ Len(batches[1]) = BATCH_SIZE
    /\ Len(batches[Len(batches)]) < BATCH_SIZE

\* C9: the train pipeline maps every item through the augmenting loader and
\* passes it through the shuffle buffer; the validation and test pipelines
\* map every item through the non-augmenting loader (plain resize, no crop,
\* no flip), have no shuffle buffer, and yield the items in the order of the
\* path list.
C9_OnlyTrainShuffledAugmented ==
    cur # "none" =>
        IF cur = "train"
        THEN /\ \A k \in DOMAIN Emitted : IsAugmented(Emitted[k])
             /\ \A k \in DOMAIN buffer : IsAugmented(buffer[k])
             /\ Len(Emitted) + Len(buffer) <= srcPos
             /\ \A k \in DOMAIN Emitted :
                    \E i \in 1..srcPos : Emitted[k].path = image_paths[cur][i]
        ELSE /\ buffer = <<>>
             /\ \A k \in DOMAIN Emitted :
                    /\ Emitted[k].path = image_paths[cur][k]
                    /\ Emitted[k].image.ops = PlainOps

\* C9 witness: a pass over train has yielded a batch whose first item is not
\* the first path of the list, and holds a flipped or cropped image.
C9_Witness ==
    /\ cur = "train"
    /\ finished
    /\ batches # <<>>
    /\ batches[1][1].path # image_paths["train"][1]
    /\ IsAugmented(batches[1][1])

\* C10 (as claimed): for every training image and every pass the decision
\* whether to flip is drawn anew: no two mapped items, be they two images of
\* one pass or one image in two passes, owe their decision to the same
\* evaluation of random.random().
C10_FlipDrawnAnew == \A a, b \in flipLog : a # b => a.draw # b.draw

\* -------------------------------------------------------------------------
\* Claims about the MNIST notebook (checked under SpecOneHot and SpecMlp)
\* -------------------------------------------------------------------------

\* the sum of the entries of a row
RECURSIVE SumSeq(_)
SumSeq(s) == IF s = <<>> THEN 0 ELSE Head(s) + SumSeq(Tail(s))

\* C3: one_hot(x, K) of a vector x of N labels is an N-by-K matrix of 0/1
\* entries in which every row sums to 1, the 1 of row i at column x[i].
C3_OneHotRows ==
    oh_called =>
        /\ Len(oh_out) = Len(oh_x)
        /\ \A i \in DOMAIN oh_out :
               /\ Len(oh_out[i]) = oh_k
               /\ \A j \in DOMAIN oh_out[i] : oh_out[i][j] \in {0, 1}
               /\ SumSeq(oh_out[i]) = 1
               /\ oh_out[i][oh_x[i] + 1] = 1

\* C3 witness: one_hot has encoded a vector holding both class 0 and the
\* last class.
C3_Witness ==
    /\ oh_called
    /\ oh_k = MaxClasses
    /\ Len(oh_x) = MaxLabels
    /\ oh_x[1] = 0
    /\ oh_x[2] = oh_k - 1

\* C4: update returns one (w, b) pair per pair of params, in the same order,
\* every entry being the input entry minus step_size times the entry of the
\* gradient at the same place (0.01 of a whole unit is one hundredth).
C4_UpdateSubtractsStep ==
    steps > 0 =>
        /\ Len(params) = Len(prevParams)
        /\ Len(params) = Len(layer_sizes) - 1
        /\ \A l \in DOMAIN prevParams :
               /\ Len(params[l]) = 2
               /\ DOMAIN params[l][1] = DOMAIN prevParams[l][1]
               /\ DOMAIN params[l][2] = DOMAIN prevParams[l][2]
               /\ \A i \in DOMAIN prevParams[l][1] :
                      /\ DOMAIN params[l][1][i] = DOMAIN prevParams[l][1][i]
                      /\ \A j \in DOMAIN prevParams[l][1][i] :
                             params[l][1][i][j] =
                                 prevParams[l][1][i][j] - grads[l][1][i][j]
               /\ \A i \in DOMAIN prevParams[l][2] :
                      params[l][2][i] = prevParams[l][2][i] - grads[l][2][i]

\* C4 witness: several updates have been applied to a list of two pairs.
C4_Witness ==
    /\ steps >= 2
    /\ Len(prevParams) = 2
    /\ params # prevParams

\* C8 (as claimed): the history table grows by one appended row per epoch:
\* once e + 1 epochs are complete it has e + 1 rows.
C8_HistoryGrowsByAppend == mpc # "train_cell" => Len(history) = epoch

\* C8 (amended): history is allocated with num_epochs rows of zeros before
\* the loop and has num_epochs rows throughout; once epoch e is complete,
\* rows 0..e hold the four metrics taken at the end of their epochs, each
\* assigned exactly once, and the rows after e are still zero.
C8_HistoryRowsWrittenOnce ==
    mpc # "train_cell" =>
        /\ Len(history) = num_epochs
        /\ epoch <= num_epochs
        /\ Len(epochParams) = epoch
        /\ \A r \in 1..num_epochs :
               IF r <= epoch
               THEN /\ writes[r] = 1
                    /\ history[r] = <<accuracy(epochParams[r], "train"),
                                      loss(epochParams[r], "train"),
                                      accuracy(epochParams[r], "validation"),
                                      loss(epochParams[r], "validation")>>
               ELSE /\ writes[r] = 0
                    /\ history[r] = <<Zero, Zero, Zero, Zero>>
        /\ (mpc = "epoch_start" /\ epoch > 0) => epochParams[epoch] = params

\* C8 witness: the loop has completed all its epochs.
C8_Witness ==
    /\ mpc = "plots"
    /\ epoch = num_epochs
    /\ \A r \in 1..num_epochs : writes[r] = 1

\* -------------------------------------------------------------------------
\* Claims about predict and batched_predict (checked under SpecPredict)
\* -------------------------------------------------------------------------

\* the activations after layer l (0: the input), written out by index
RECURSIVE ActivationsAfter(_, _, _)
ActivationsAfter(ps, x, l) ==
    IF l = 0 THEN x
    ELSE LET a == ActivationsAfter(ps, x, l - 1)
         IN [i \in 1..Len(ps[l][2]) |->
                LET out == SumSeq([j \in 1..Len(a) |-> ps[l][1][i][j] * a[j]])
                               + ps[l][2][i]
                IN IF out < 0 THEN 0 ELSE out]

\* the logits of the last layer, without relu
LastLogits(ps, x) ==
    LET L == Len(ps)
        a == ActivationsAfter(ps, x, L - 1)
    IN [k \in 1..Len(ps[L][2]) |->
           SumSeq([j \in 1..Len(a) |-> ps[L][1][k][j] * a[j]]) + ps[L][2][k]]

\* C11: predict(params, image) is, entry by entry, the last layer's affine
\* transform of the activations minus the logsumexp of these logits, the
\* activations being max(0, w*a + b) layer after layer over all layers but
\* the last; it has as many entries as the last bias vector, and with a
\* single layer it is the affine transform of the image itself.
C11_PredictLayers ==
    \A i \in DOMAIN pr_preds :
        pr_preds[i] # NotCalled =>
            LET L == Len(pr_params)
                logits == LastLogits(pr_params, pr_X[i])
            IN /\ Len(pr_preds[i]) = Len(pr_params[L][2])
               /\ \A k \in DOMAIN pr_preds[i] :
                      /\ pr_preds[i][k].value = logits[k]
                      /\ pr_preds[i][k].minus = [logsumexp_of |-> logits]
               /\ L = 1 =>
                      \A k \in DOMAIN pr_preds[i] :
                          pr_preds[i][k].value =
                              SumSeq([j \in 1..Len(pr_X[i]) |->
                                         pr_params[1][1][k][j] * pr_X[i][j]])
                                  + pr_params[1][2][k]

\* a hidden unit of layer l whose affine output is negative for input x
NegativeHidden(ps, x) ==
    \E l \in 1..(Len(ps) - 1) : \E i \in 1..Len(ps[l][2]) :
        LET a == ActivationsAfter(ps, x, l - 1)
        IN SumSeq([j \in 1..Len(a) |-> ps[l][1][i][j] * a[j]]) + ps[l][2][i] < 0

\* C11 witness: predict has run on a three-layer list with a hidden unit cut
\* off by relu, and on some row the result has a negative logit.
C11_Witness ==
    /\ Len(pr_params) = 3
    /\ \E i \in DOMAIN pr_preds :
           /\ pr_preds[i] # NotCalled
           /\ NegativeHidden(pr_params, pr_X[i])
           /\ \E k \in DOMAIN pr_preds[i] : pr_preds[i][k].value < 0

HasShape(ps, sizes) ==
    /\ Len(ps) = Len(sizes) - 1
    /\ \A i \in DOMAIN ps :
           /\ Len(ps[i]) = 2
           /\ Len(ps[i][1]) = sizes[i + 1]
           /\ \A r \in DOMAIN ps[i][1] : Len(ps[i][1][r]) = sizes[i]
           /\ Len(ps[i][2]) = sizes[i + 1]

\* C13: init_network_params(sizes, key) returns len(sizes) - 1 pairs of the
\* shapes (sizes[i+1], sizes[i]) and (sizes[i+1],); the list passed to update
\* is after the call what it was before; params is the list the last update
\* returned, and after any number of training steps it has the number of
\* pairs and the shapes it had at initialization.
C13_ParamsShapeKept ==
    /\ \A sizes \in PredictSizes \cup {<<NPixels>>} : \A key \in 0..MaxKey :
           HasShape(init_network_params(sizes, key), sizes)
    /\ HasShape(params, layer_sizes)
    /\ steps > 0 =>
           /\ argAfter = prevParams
           /\ HasShape(prevParams, layer_sizes)
           /\ params = update(prevParams, grads)

\* C13 witness: the loop has applied all its updates.
C13_Witness ==
    /\ mpc = "plots"
    /\ steps = num_epochs * BatchesPerEpoch
    /\ params # init_network_params(layer_sizes, 0)

\* the x and y of batch k of the epoch's loader order
BatchImages(ord, k) ==
    [r \in 1..batch_size |-> ImageOf(ord[(k - 1) * batch_size + r])]

BatchTargets(ord, k) ==
    [r \in 1..batch_size |->
        [c \in 1..NClasses |->
            IF TargetOf(ord[(k - 1) * batch_size + r]) = c - 1 THEN 1 ELSE 0]]

\* the state part of C15
C15_UpdatesAndMetrics ==
    /\ mpc # "failed"
    /\ mpc = "epoch_start" => steps = epoch * BatchesPerEpoch
    /\ mpc = "batches" =>
           /\ batchNo <= BatchesPerEpoch
           /\ steps = epoch * BatchesPerEpoch + batchNo
           /\ batchNo > 0 =>
                  /\ xb = BatchImages(order, batchNo)
                  /\ yb = BatchTargets(order, batchNo)
    /\ Len(epochParams) = epoch
    /\ Len(stepsAtMetrics) = epoch
    /\ (mpc = "epoch_start" /\ epoch > 0) => epochParams[epoch] = params
    /\ \A e \in DOMAIN epochParams :
           /\ stepsAtMetrics[e] = e * BatchesPerEpoch
           /\ history[e] =
                  <<accuracy(epochParams[e], "train"),
                    loss(epochParams[e], "train"),
                    accuracy(epochParams[e], "validation"),
                    loss(epochParams[e], "validation")>>
    /\ epoch <= num_epochs
    /\ mpc = "plots" =>
           /\ epoch = num_epochs
           /\ steps = num_epochs * BatchesPerEpoch

\* C15: params is updated once per batch of train_loader, on the batches in
\* the loader's order; the metrics of epoch e (from 0) are taken on the
\* params that (e + 1) * (batches per epoch) updates have produced; and the
\* loop ends, after exactly num_epochs epochs.
C15_OneUpdatePerBatch == []C15_UpdatesAndMetrics /\ <>(mpc = "plots")

\* C15 witness: the metrics of the last epoch have been taken after all
\* the updates, the loader having drawn the samples in reverse order.
C15_Witness ==
    /\ mpc = "plots"
    /\ Len(epochParams) = num_epochs
    /\ steps = num_epochs * BatchesPerEpoch
    /\ order[1] # 1

\* C17 (as claimed): for every training-set size, every batch reaches
\* update with as many rows of x as labels in y and NPixels columns, the
\* last batch of an epoch included: no batch ends the run with an error.
C17_BatchRowsMatchLabels ==
    /\ mpc # "failed"
    /\ xb # <<>> =>
           /\ Len(xb) = Len(yb)
           /\ \A r \in DOMAIN xb : Len(xb[r]) = NPixels

\* -------------------------------------------------------------------------
\* Further claims about the tf.data pipelines (checked under SpecData)
\* -------------------------------------------------------------------------

\* every item the map stage of the running pass has produced
Mapped == Emitted \o buffer

\* C16: every image preprocess_image returns has the size 160 x 160 x 3,
\* whatever the size of the file's image: with augment it is resized to
\* 256 x 256, cropped to 160 x 160 x 3 at an offset inside the resized image
\* and possibly flipped; without augment it is resized to 160 x 160; in both
\* branches the last step, and the only one of its kind, divides by 255.
C16_FixedImageSize ==
    \A k \in DOMAIN Mapped :
        LET image == Mapped[k].image
            n == Len(image.ops)
        IN /\ image.shape = <<160, 160, 3>>
           /\ image.ops[1] = <<"decode_jpeg">>
           /\ image.ops[n] = <<"divide", 255>>
           /\ Cardinality({j \in 1..n : image.ops[j][1] = "divide"}) = 1
           /\ IF cur = "train"
              THEN /\ image.ops[2] = <<"resize", 256, 256>>
                   /\ image.ops[3][1] = "random_crop"
                   /\ image.ops[3][2] \in 0..(256 - 160)
                   /\ image.ops[3][3] \in 0..(256 - 160)
                   /\ n \in {4, 5}
                   /\ n = 5 => image.ops[4] = <<"flip_left_right">>
              ELSE image.ops = <<<<"decode_jpeg">>, <<"resize", 160, 160>>,
                                 <<"divide", 255>>>>

\* C16 witness: a train pass has mapped, cropped and flipped files of three
\* different image sizes.
C16_Witness ==
    /\ cur = "train"
    /\ finished
    /\ graph["train"].flip
    /\ \E a, b, c \in DOMAIN Mapped :
           /\ DecodeJpeg(Mapped[a].path).shape = <<375, 499, 3>>
           /\ DecodeJpeg(Mapped[b].path).shape = <<500, 333, 3>>
           /\ DecodeJpeg(Mapped[c].path).shape = <<100, 80, 3>>
           /\ Len(Mapped[a].image.ops) = 5

\* C18: for every split image_labels has one label per path, the i-th one
\* being label_to_index of the parent directory name of the i-th path; and
\* every item that has left the map stage carries a path of the split's
\* list together with the label of that path's own parent directory.
C18_LabelsStayPaired ==
    /\ \A d \in Splits :
           /\ Len(image_labels[d]) = Len(image_paths[d])
           /\ \A i \in DOMAIN image_paths[d] :
                  image_labels[d][i] = label_to_index[image_paths[d][i][2]]
    /\ \A k \in DOMAIN Mapped :
           /\ \E i \in DOMAIN image_paths[cur] :
                  /\ Mapped[k].path = image_paths[cur][i]
                  /\ Mapped[k].label = image_labels[cur][i]
           /\ Mapped[k].label = label_to_index[Mapped[k].path[2]]
           /\ Mapped[k].label =
                  Cardinality({n \in Range(listing) : StrLess(n, Mapped[k].path[2])})

\* C18 witness: a shuffled train pass has yielded a batch that holds items
\* of both classes, not in the order of the path list.
C18_Witness ==
    /\ cur = "train"
    /\ finished
    /\ batches # <<>>
    /\ batches[1][1].path # image_paths["train"][1]
    /\ \E a, b \in DOMAIN batches[1] : batches[1][a].label # batches[1][b].label

\* the paths one finished pass has yielded, in order
YieldedPaths == [k \in DOMAIN Flatten(batches) |-> Flatten(batches)[k].path]

\* C20: a finished pass over test has yielded every one of the
\* nimages['test'] paths exactly once; a finished pass over train or
\* validation has yielded floor(N / BATCH_SIZE) * BATCH_SIZE items, no path
\* twice, and has left out the other N mod BATCH_SIZE paths of the split.
C20_PassCoverage ==
    (cur # "none" /\ finished) =>
        LET N == nimages[cur]
            paths == image_paths[cur]
        IN /\ \A a, b \in DOMAIN YieldedPaths :
                  a # b => YieldedPaths[a] # YieldedPaths[b]
           /\ Range(YieldedPaths) \subseteq Range(paths)
           /\ IF cur = "test"
              THEN /\ Len(YieldedPaths) = N
                   /\ Range(YieldedPaths) = Range(paths)
              ELSE /\ Len(YieldedPaths) = (N \div BATCH_SIZE) * BATCH_SIZE
                   /\ Cardinality(Range(paths) \ Range(YieldedPaths))
                          = N % BATCH_SIZE

\* C20 witness: a finished pass over train has left out an image that is
\* not the last of the list, N mod BATCH_SIZE being positive.
C20_Witness ==
    /\ cur = "train"
    /\ finished
    /\ NTrain % BATCH_SIZE > 0
    /\ batches # <<>>
    /\ image_paths["train"][NTrain] \in Range(YieldedPaths)

\* -------------------------------------------------------------------------
\* A further claim about the pretrained-network flow (checked under SpecDvc)
\* -------------------------------------------------------------------------

\* C19: whenever a fit of the pretrained-network flow is running, or about
\* to run, the model was compiled after the last change of a trainable
\* flag: the flags the compile saw are the flags the layers have. Before
\* the first compile the pretrained layers are already frozen and nothing
\* has been trained; the first fit runs on the first compile (rmsprop's own
\* learning rate), the second on the compile of the unfreeze cell (1e-5).
C19_CompileBeforeFit ==
    /\ pc = "top_layers" =>
           /\ compiled = <<>>
           /\ \A i \in DOMAIN model : ~model[i].trainable /\ model[i].updates = 0
    /\ pc \in {"fit_new", "fit_finetune"} =>
           /\ Len(compiled) = Len(model)
           /\ \A i \in DOMAIN model : compiled[i] = model[i].trainable
    /\ pc \in {"fit_new", "unfreeze"} =>
           /\ learning_rate = "default"
           /\ \A i \in DOMAIN model :
                  model[i].origin = "pretrained" => ~compiled[i]
    /\ pc = "fit_finetune" =>
           /\ learning_rate = "1e-5"
           /\ \A i \in DOMAIN model :
                  model[i].updates > 0 => compiled[i] /\ model[i].trainable

\* C19 witness: the second fit is running on a model that has unfrozen
\* pretrained layers, compiled with the learning rate 1e-5.
C19_Witness ==
    /\ pc = "fit_finetune"
    /\ epochsDone > 0
    /\ learning_rate = "1e-5"
    /\ \E i \in DOMAIN model :
           model[i].origin = "pretrained" /\ compiled[i] /\ model[i].updates > 0
====
